---- MODULE Spec2Model ----
(***************************************************************************)
(* A model of the Yelp scraper actor: the contact extractor, the website   *)
(* contact enricher, the detail-page handler, the search-page handler and  *)
(* the request handler, in both lineages of the repository: the modular    *)
(* one (src/src/..., part_001..part_003) and the single-file main          *)
(* (part_000).                                                             *)
(*                                                                         *)
(* Text is a sequence of one-character strings, so the regular             *)
(* expressions of the code are matched character by character.             *)
(***************************************************************************)
EXTENDS Integers, Sequences, FiniteSets, TLC

VARIABLES
  impl,          \* which lineage runs: "modular" or "single"
  pc,            \* the position of the running code
  html, bundle,  \* the contact extractor's argument and its result
  caller,        \* who called fetchWebsiteAndContacts
  baseUrl, contactPaths,       \* its arguments
  urlsToTry, idx, tried, results,  \* its locals
  ret,           \* how the call ended
  trace,         \* the fetches and delays of the call, in order
  request, page, input,    \* the work item, its rendered page, the actor input
  item,          \* the record of the detail page being built
  enqueued, dataset, logs, \* what the handler enqueued, pushed and logged
  outcome,       \* "running", "completed" or "failed" (the handler threw)
  arr, once, twice  \* a list, unique(arr) and unique(unique(arr))

enrichVars == <<caller, baseUrl, contactPaths, urlsToTry, idx, tried, results, ret, trace>>
handlerVars == <<request, page, input, item, enqueued, dataset, logs, outcome>>
uniqueVars == <<arr, once, twice>>
vars == <<impl, pc, html, bundle, enrichVars, handlerVars, uniqueVars>>

Impls == {"modular", "single"}

-----------------------------------------------------------------------------
(* Characters and character classes *)

LowerSeq == <<"a","b","c","d","e","f","g","h","i","j","k","l","m",
              "n","o","p","q","r","s","t","u","v","w","x","y","z">>
UpperSeq == <<"A","B","C","D","E","F","G","H","I","J","K","L","M",
              "N","O","P","Q","R","S","T","U","V","W","X","Y","Z">>

Range(f) == {f[i] : i \in DOMAIN f}

Letters == Range(LowerSeq) \cup Range(UpperSeq)
Digits == {"0","1","2","3","4","5","6","7","8","9"}
Spaces == {" "}

\* String.prototype.toLowerCase, one character
ToLowerChar(c) ==
  IF c \in Range(UpperSeq)
    THEN LowerSeq[CHOOSE i \in DOMAIN UpperSeq : UpperSeq[i] = c]
    ELSE c

\* String.prototype.toLowerCase
ToLower(s) == [i \in DOMAIN s |-> ToLowerChar(s[i])]

\* [a-zA-Z0-9._%+-]
EmailLocalChars == Letters \cup Digits \cup {".", "_", "%", "+", "-"}
\* [a-zA-Z0-9.-]
EmailDomainChars == Letters \cup Digits \cup {".", "-"}
\* [\d\s().-]
PhoneMidChars == Digits \cup Spaces \cup {"(", ")", ".", "-"}
\* [ .-]
PhoneSepChars == {" ", ".", "-"}

\* the first index j >= i with s[j] not in C (Len(s)+1 when there is none)
RECURSIVE RunEnd(_, _, _)
RunEnd(s, i, C) ==
  IF i > Len(s) \/ s[i] \notin C THEN i ELSE RunEnd(s, i + 1, C)

\* s has the characters of w at position i
HasAt(s, i, w) ==
  /\ i >= 1
  /\ i + Len(w) - 1 <= Len(s)
  /\ \A k \in 1..Len(w) : s[i + k - 1] = w[k]

\* String.prototype.includes
Includes(s, w) == \E i \in 1..(Len(s) + 1) : HasAt(s, i, w)

Max(S) == CHOOSE x \in S : \A y \in S : y <= x

\* the matches of a global regular expression, left to right, none overlapping:
\* ends[i] is the index after the match at i, 0 when there is none
RECURSIVE Scan(_, _, _)
Scan(s, ends, i) ==
  IF i > Len(s) THEN <<>>
  ELSE IF ends[i] > i
    THEN <<SubSeq(s, i, ends[i] - 1)>> \o Scan(s, ends, ends[i])
    ELSE Scan(s, ends, i + 1)

-----------------------------------------------------------------------------
(* The regular expressions of the contact extractor *)

\* /[a-zA-Z0-9._%+-]+@[a-zA-Z0-9.-]+\.[a-zA-Z]{2,}/ tried at index i: the index
\* after the match, 0 when it does not match there. The local part is greedy up
\* to the "@"; the greedy domain part gives characters back until it is followed
\* by a dot and at least two letters.
EmailMatchEnd(s, i) ==
  LET j == RunEnd(s, i, EmailLocalChars)
      k == RunEnd(s, j + 1, EmailDomainChars)
      P == {p \in (j + 2)..(k - 1) :
              s[p] = "." /\ RunEnd(s, p + 1, Letters) - (p + 1) >= 2}
  IN IF j > i /\ j <= Len(s) /\ s[j] = "@" /\ P # {}
       THEN RunEnd(s, Max(P) + 1, Letters)
       ELSE 0

EmailMatches(s) == Scan(s, [i \in 1..Len(s) |-> EmailMatchEnd(s, i)], 1)

\* DEFAULTS.PHONE_REGEX /(\+?\d[\d\s().-]{7,}\d)/ tried at index i
PhoneRegexMinMid == 7
PhoneMatchEndModular(s, i) ==
  LET d == IF s[i] = "+" THEN i + 1 ELSE i
      k == RunEnd(s, d + 1, PhoneMidChars)
      Q == {q \in (d + 1 + PhoneRegexMinMid)..(k - 1) : s[q] \in Digits}
  IN IF d <= Len(s) /\ s[d] \in Digits /\ Q # {} THEN Max(Q) + 1 ELSE 0

PhoneMatchesModular(s) ==
  Scan(s, [i \in 1..Len(s) |-> PhoneMatchEndModular(s, i)], 1)

\* The backtracking matcher of the single-file phone expression: every piece
\* maps a start index to the indices it can end at, in the order the engine
\* tries them (greedy: longest first); f[i] lists the ends of a piece begun at i.
RECURSIVE FlatMap(_, _)
FlatMap(f, xs) ==
  IF xs = <<>> THEN <<>> ELSE f[Head(xs)] \o FlatMap(f, Tail(xs))

Positions(s) == 1..(Len(s) + 1)

\* c? for a character class C
OptCharEnds(s, i, C) ==
  IF i <= Len(s) /\ s[i] \in C THEN <<i + 1, i>> ELSE <<i>>

\* \d{lo,hi}
DigitEnds(s, i, lo, hi) ==
  LET run == RunEnd(s, i, Digits) - i
      n == IF run > hi THEN hi ELSE run
  IN IF n < lo THEN <<>> ELSE [k \in 1..(n - lo + 1) |-> i + n - k + 1]

\* (?:\+?\d{1,3}[ .-]?)?
PhoneCountryEnds(s, i) ==
  FlatMap([d \in Positions(s) |-> OptCharEnds(s, d, PhoneSepChars)],
          FlatMap([p \in Positions(s) |-> DigitEnds(s, p, 1, 3)],
                  OptCharEnds(s, i, {"+"})))
  \o <<i>>

\* (?:\(?\d{2,4}\)?[ .-]?)?
PhoneAreaEnds(s, i) ==
  FlatMap([c \in Positions(s) |-> OptCharEnds(s, c, PhoneSepChars)],
    FlatMap([d \in Positions(s) |-> OptCharEnds(s, d, {")"})],
      FlatMap([p \in Positions(s) |-> DigitEnds(s, p, 2, 4)],
              OptCharEnds(s, i, {"("}))))
  \o <<i>>

\* \d{3,4}[ .-]?\d{3,4}
PhoneLocalEnds(s, i) ==
  FlatMap([c \in Positions(s) |-> DigitEnds(s, c, 3, 4)],
    FlatMap([d \in Positions(s) |-> OptCharEnds(s, d, PhoneSepChars)],
            DigitEnds(s, i, 3, 4)))

\* /(?:\+?\d{1,3}[ .-]?)?(?:\(?\d{2,4}\)?[ .-]?)?\d{3,4}[ .-]?\d{3,4}/ at i
PhoneMatchEndSingle(s, i) ==
  LET ends == FlatMap([b \in Positions(s) |-> PhoneLocalEnds(s, b)],
                FlatMap([a \in Positions(s) |-> PhoneAreaEnds(s, a)],
                        PhoneCountryEnds(s, i)))
  IN IF ends = <<>> THEN 0 ELSE Head(ends)

PhoneMatchesSingle(s) ==
  Scan(s, [i \in 1..Len(s) |-> PhoneMatchEndSingle(s, i)], 1)

\* the platform alternatives of the two social-link expressions
SocialPlatformsModular ==
  {<<"f","a","c","e","b","o","o","k">>, <<"i","n","s","t","a","g","r","a","m">>, <<"t","w","i","t","t","e","r">>, <<"x",".","c","o","m">>, <<"l","i","n","k","e","d","i","n">>, <<"y","o","u","t","u","b","e">>, <<"t","i","k","t","o","k">>}
SocialPlatformsSingle == SocialPlatformsModular \cup {<<"f","b">>}

\* [^\s"'<>] and [^\s"'<>)]
SocialStopModular == Spaces \cup {"\"", "'", "<", ">"}
SocialStopSingle == SocialStopModular \cup {")"}

RECURSIVE RunEndNot(_, _, _)
RunEndNot(s, i, C) ==
  IF i > Len(s) \/ s[i] \in C THEN i ELSE RunEndNot(s, i + 1, C)

\* /https?:\/\/(www\.)?(<platforms>)\.com\/[^<stop>]+/i tried at index i
SocialMatchEnd(s, i, platforms, stop) ==
  LET ls == ToLower(s)
      a == IF HasAt(ls, i + 4, <<"s">>) THEN i + 5 ELSE i + 4
      b == IF HasAt(ls, a + 3, <<"w","w","w",".">>) THEN a + 7 ELSE a + 3
      M == {w \in platforms : HasAt(ls, b, w \o <<".","c","o","m","/">>)}
      c == b + Len(CHOOSE w \in M : TRUE) + 5
      e == RunEndNot(s, c, stop)
  IN IF HasAt(ls, i, <<"h","t","t","p">>) /\ HasAt(ls, a, <<":","/","/">>) /\ M # {} /\ e > c
       THEN e ELSE 0

SocialMatches(s, platforms, stop) ==
  Scan(s, [i \in 1..Len(s) |-> SocialMatchEnd(s, i, platforms, stop)], 1)

-----------------------------------------------------------------------------
(* Helper utilities *)

\* the values a list entry can hold besides a string
JsNull == <<"null">>
JsUndefined == <<"undefined">>

\* Boolean(x) is false: the empty string, null, undefined
Falsy == {<<>>, JsNull, JsUndefined}

\* the order of the last occurrences
RECURSIVE InsertionOrderOfLast(_, _)
InsertionOrderOfLast(xs, seen) ==
  IF xs = <<>> THEN <<>>
  ELSE IF \E k \in DOMAIN Tail(xs) : Tail(xs)[k] = Head(xs)
    THEN InsertionOrderOfLast(Tail(xs), seen)
  ELSE <<Head(xs)>> \o InsertionOrderOfLast(Tail(xs), seen)

RECURSIVE InsertionOrder(_, _)
InsertionOrder(xs, seen) ==
  IF xs = <<>> THEN <<>>
  ELSE IF Head(xs) \in seen THEN InsertionOrder(Tail(xs), seen)
  ELSE <<Head(xs)>> \o InsertionOrder(Tail(xs), seen \cup {Head(xs)})

\* the filter without the Set
uniqueKeepsDuplicates(xs) == SelectSeq(xs, LAMBDA x : x \notin Falsy)

\* unique = (arr) => [...new Set((arr || []).filter(Boolean))]
\* (every caller passes an array, so arr || [] is arr)
unique(xs) == InsertionOrder(SelectSeq(xs, LAMBDA x : x \notin Falsy), {})

IdleUnique == arr = <<>> /\ once = <<>> /\ twice = <<>>

EmptyBundle == [emails |-> <<>>, phones |-> <<>>, socialLinks |-> <<>>]

\* e => !/example\./i.test(e)
NotExampleDot(e) == ~Includes(ToLower(e), <<"e","x","a","m","p","l","e",".">>)

\* e => !/example|test/.test(e.toLowerCase())
NotExampleOrTest(e) ==
  ~(Includes(ToLower(e), <<"e","x","a","m","p","l","e">>) \/ Includes(ToLower(e), <<"t","e","s","t">>))

\* the digit filter of the single-file extractor
MinPhoneDigits == 7
\* p => p.replace(/[^\d]/g, '').length >= 7
EnoughDigits(p) == Len(SelectSeq(p, LAMBDA c : c \in Digits)) >= MinPhoneDigits

\* misc.js: extractContactsFromHtml (html = '' when undefined)
extractContactsFromHtmlModular(h) ==
  LET text == IF h = JsUndefined THEN <<>> ELSE h
  IN [emails |-> SelectSeq(unique(EmailMatches(text)), NotExampleDot),
      phones |-> unique(PhoneMatchesModular(text)),
      socialLinks |->
        unique(SocialMatches(text, SocialPlatformsModular, SocialStopModular))]

\* single-file main: extractContactsFromHtml
extractContactsFromHtmlSingle(h) ==
  IF h \in Falsy THEN EmptyBundle
  ELSE [emails |-> SelectSeq(unique(EmailMatches(h)), NotExampleOrTest),
        phones |-> SelectSeq(unique(PhoneMatchesSingle(h)), EnoughDigits),
        socialLinks |->
          unique(SocialMatches(h, SocialPlatformsSingle, SocialStopSingle))]

extractContactsFromHtml(i, h) ==
  IF i = "modular" THEN extractContactsFromHtmlModular(h)
  ELSE extractContactsFromHtmlSingle(h)

-----------------------------------------------------------------------------
(* URL strings.  A string is modelled by what the URL parser makes of it:    *)
(* kind "abs" is an absolute URL of a special scheme, "rel" a relative       *)
(* reference (the empty string is the empty reference), "opaque" an absolute *)
(* URL without a host (mailto:), "invalid" a string no base makes parseable, *)
(* "null" the value null.                                                    *)

NoQuery == [name |-> "", enc |-> 0, raw |-> ""]

U(kind, scheme, host, port, path, query, frag) ==
  [kind |-> kind, scheme |-> scheme, host |-> host, port |-> port,
   path |-> path, query |-> query, frag |-> frag]

NullUrl == U("null", "", "", "", "", NoQuery, "")
EmptyString == U("rel", "", "", "", "", NoQuery, "")
InvalidUrl == U("invalid", "", "", "", "", NoQuery, "")
Failure == U("failure", "", "", "", "", NoQuery, "")

\* !s for a string or null
IsFalsy(u) == u \in {NullUrl, EmptyString}

\* new URL(s) succeeds
Parses(u) == u.kind \in {"abs", "opaque"}

\* the parser's serialization: an absolute URL has a path of at least "/"
Normalized(u) ==
  IF u.kind = "abs" /\ u.path = "" THEN [u EXCEPT !.path = "/"] ELSE u

\* new URL(ref, base).toString(), Failure when the constructor throws
Resolve(ref, base) ==
  IF ~Parses(base) THEN Failure
  ELSE IF ref.kind \in {"abs", "opaque"} THEN Normalized(ref)
  ELSE IF ref.kind # "rel" \/ base.kind = "opaque" THEN Failure
  ELSE Normalized(
         [base EXCEPT !.path = IF ref.path = "" THEN base.path ELSE ref.path,
                      !.query = IF ref.path = "" /\ ref.query = NoQuery
                                  THEN base.query ELSE ref.query,
                      !.frag = ref.frag])

\* url.replace(/#.*$/, '')
StripFragment(u) == [u EXCEPT !.frag = ""]

\* baseUrl.replace(/\/+$/, '')
StripTrailingSlashes(u) ==
  IF u.path \in {"/", "//"} /\ u.query = NoQuery /\ u.frag = ""
    THEN [u EXCEPT !.path = ""]
    ELSE u

-----------------------------------------------------------------------------
(* fetchWebsiteAndContacts *)

\* the loop without its break
StopEarlyNever(i, acc) == FALSE

\* the stop predicate checked after a page's contacts were added
StopEarly(i, acc) ==
  IF i = "modular" THEN Len(acc.emails) > 0
  ELSE Len(acc.emails) > 0 /\ Len(acc.phones) > 0

\* the fetch outside any try block
CatchesFetchErrorNever(i) == FALSE

\* a rejected gotScraping call is caught inside the loop
CatchesFetchError(i) == TRUE

\* website-scraper.js uses unique without importing it; the single file
\* defines it at top level
UniqueInScope(i) == i = "single"

NoRet == [threw |-> FALSE, error |-> "", value |-> EmptyBundle]
Returned(b) == [threw |-> FALSE, error |-> "", value |-> b]
Threw(e) == [threw |-> TRUE, error |-> e, value |-> EmptyBundle]

\* the return statement
DedupeResults(i, acc) ==
  IF UniqueInScope(i)
    THEN Returned([emails |-> unique(acc.emails), phones |-> unique(acc.phones),
                   socialLinks |-> unique(acc.socialLinks)])
    ELSE Threw("ReferenceError")

\* [base, ...contactPaths.map(p => new URL(p, base).toString())]
CandidateUrls(i, base, paths) ==
  LET b == IF i = "single" THEN StripTrailingSlashes(base) ELSE base
  IN <<b>> \o [k \in DOMAIN paths |-> Resolve(paths[k], b)]

\* the first index from i on whose fragment-stripped URL was not tried, 0 if none
RECURSIVE NextCandidate(_, _, _)
NextCandidate(urls, tr, i) ==
  IF i > Len(urls) THEN 0
  ELSE IF StripFragment(urls[i]) \in tr THEN NextCandidate(urls, tr, i + 1)
  ELSE i

LogEntry(level, text, arg) == [level |-> level, text |-> text, arg |-> arg]

Event(ev, i, u, body) == [ev |-> ev, i |-> i, url |-> u, body |-> body]

\* the loop from index i on, up to the next await or to the return
EnrichContinue(urls, i, acc, tc) ==
  LET j == NextCandidate(urls, tried, i)
  IN IF j = 0
       THEN /\ ret' = DedupeResults(impl, acc)
            /\ pc' = IF ret'.threw THEN "enrich_thrown" ELSE "enrich_returned"
            /\ results' = acc
            /\ trace' = tc
            /\ UNCHANGED <<idx, tried>>
       ELSE /\ pc' = "enrich_fetching"
            /\ idx' = j
            /\ tried' = tried \cup {StripFragment(urls[j])}
            /\ trace' = Append(tc, Event("fetch", j, StripFragment(urls[j]), <<>>))
            /\ results' = acc
            /\ UNCHANGED ret

\* the break statement: straight to the return
EnrichBreak(acc, tc) ==
  /\ ret' = DedupeResults(impl, acc)
  /\ pc' = IF ret'.threw THEN "enrich_thrown" ELSE "enrich_returned"
  /\ results' = acc
  /\ trace' = tc
  /\ UNCHANGED <<idx, tried>>

\* the call up to its first await: the guard, the candidate list, the first fetch
EnrichCall ==
  /\ pc = "enrich_call"
  /\ IF IsFalsy(baseUrl)
       THEN /\ pc' = "enrich_returned"
            /\ ret' = Returned(EmptyBundle)
            /\ UNCHANGED <<urlsToTry, idx, tried, results, trace>>
     ELSE IF Failure \in Range(CandidateUrls(impl, baseUrl, contactPaths))
       THEN /\ pc' = "enrich_thrown"
            /\ ret' = Threw("TypeError")
            /\ UNCHANGED <<urlsToTry, idx, tried, results, trace>>
     ELSE /\ urlsToTry' = CandidateUrls(impl, baseUrl, contactPaths)
          /\ EnrichContinue(urlsToTry', 1, EmptyBundle, <<>>)
  /\ UNCHANGED <<impl, html, bundle, caller, baseUrl, contactPaths, handlerVars>>
  /\ UNCHANGED uniqueVars

Merge(acc, b) ==
  [emails |-> acc.emails \o b.emails, phones |-> acc.phones \o b.phones,
   socialLinks |-> acc.socialLinks \o b.socialLinks]

\* gotScraping resolves with a body (the empty text when there is none)
FetchResolves(body) ==
  /\ pc = "enrich_fetching"
  /\ urlsToTry[idx].kind = "abs"
  /\ LET tc == Append(trace, Event(IF body = <<>> THEN "empty" ELSE "ok", idx,
                                   StripFragment(urlsToTry[idx]), body))
         acc == Merge(results, extractContactsFromHtml(impl, body))
     IN IF impl = "single" /\ body = <<>>
          THEN EnrichContinue(urlsToTry, idx + 1, results, tc)
        ELSE IF StopEarly(impl, acc) THEN EnrichBreak(acc, tc)
        ELSE /\ pc' = "enrich_sleeping"
             /\ results' = acc
             /\ trace' = Append(tc, Event("sleep", idx, StripFragment(urlsToTry[idx]), <<>>))
             /\ UNCHANGED <<idx, tried, ret>>
  /\ bundle' = IF impl = "single" /\ body = <<>> THEN bundle
               ELSE extractContactsFromHtml(impl, body)
  /\ UNCHANGED <<impl, html, caller, baseUrl, contactPaths, urlsToTry, handlerVars>>
  /\ UNCHANGED uniqueVars

\* gotScraping rejects
FetchRejects ==
  /\ pc = "enrich_fetching"
  /\ LET tc == Append(trace, Event("fail", idx, StripFragment(urlsToTry[idx]), <<>>))
     IN IF ~CatchesFetchError(impl)
          THEN /\ pc' = "enrich_thrown"
               /\ ret' = Threw("RequestError")
               /\ trace' = tc
               /\ UNCHANGED <<idx, tried, results>>
        ELSE IF impl = "modular"
          THEN /\ pc' = "enrich_sleeping"
               /\ trace' = Append(tc, Event("sleep", idx, StripFragment(urlsToTry[idx]), <<>>))
               /\ UNCHANGED <<idx, tried, results, ret>>
        ELSE EnrichContinue(urlsToTry, idx + 1, results, tc)
  /\ logs' = IF impl = "single" /\ CatchesFetchError(impl)
               THEN Append(logs, LogEntry("debug", "Error fetching website", "url"))
               ELSE logs
  /\ UNCHANGED <<impl, html, bundle, caller, baseUrl, contactPaths, urlsToTry>>
  /\ UNCHANGED <<request, page, input, item, enqueued, dataset, outcome>>
  /\ UNCHANGED uniqueVars

\* the polite delay is over
SleepDone ==
  /\ pc = "enrich_sleeping"
  /\ EnrichContinue(urlsToTry, idx + 1, results, trace)
  /\ UNCHANGED <<impl, html, bundle, caller, baseUrl, contactPaths, urlsToTry, handlerVars>>
  /\ UNCHANGED uniqueVars

IdleEnrich ==
  /\ caller = "none"
  /\ baseUrl = NullUrl
  /\ contactPaths = <<>>
  /\ urlsToTry = <<>>
  /\ idx = 0
  /\ tried = {}
  /\ results = EmptyBundle
  /\ ret = NoRet
  /\ trace = <<>>

-----------------------------------------------------------------------------
(* The rendered page.  A detail page holds its JSON-LD scripts and the       *)
(* elements the selectors look for; a search page holds its /biz/ anchors    *)
(* and its next-page anchors, both in document order.                        *)

\* null and undefined, for a field that holds a string otherwise
Null == "<null>"

\* the fields of the record that one lineage does not have
Absent == "<absent>"

NoUserData == "<undefined>"

YelpRoot == U("abs", "https", "www.yelp.com", "", "/", NoQuery, "")

Block(type, name, telephone, address, category, ratingValue) ==
  [type |-> type, name |-> name, telephone |-> telephone, address |-> address,
   category |-> category, ratingValue |-> ratingValue]

\* no structured data: every ld?.x is undefined
NoLd == Block("", Null, Null, Null, <<>>, Null)

\* a script element: text that JSON.parse accepts (its blocks) or rejects
Script(ok, blocks) == [ok |-> ok, blocks |-> blocks]

\* the @type values extractJsonLd accepts
BusinessTypes(i) ==
  IF i = "modular" THEN {"LocalBusiness", "Organization"}
  ELSE {"LocalBusiness", "Organization", "ProfessionalService", "MedicalBusiness"}

RECURSIVE FirstBusinessBlock(_, _)
FirstBusinessBlock(i, blocks) ==
  IF blocks = <<>> THEN NoLd
  ELSE IF Head(blocks).type \in BusinessTypes(i) THEN Head(blocks)
  ELSE FirstBusinessBlock(i, Tail(blocks))

\* extractJsonLd: the first block of an accepted type, broken scripts skipped
RECURSIVE extractJsonLd(_, _)
extractJsonLd(i, scripts) ==
  IF scripts = <<>> THEN NoLd
  ELSE LET b == IF Head(scripts).ok THEN FirstBusinessBlock(i, Head(scripts).blocks)
                ELSE NoLd
       IN IF b # NoLd THEN b ELSE extractJsonLd(i, Tail(scripts))

\* (text)?.trim() || null
TrimOrNull(t) == IF t \in {Null, "", " "} THEN Null ELSE t

\* a locator action (textContent, getAttribute) on a locator that matches no
\* element waits for one and rejects with a TimeoutError
ActionTimesOut(el) == el = Null

\* safeText of the single file: null when nothing matches
safeText(el) == TrimOrNull(el)

\* the name field: ld.name, else the first h1
NameThrows(i, ld, pg) == i = "modular" /\ ld.name \in {Null, ""} /\ ActionTimesOut(pg.h1)
ResolveName(i, ld, pg) ==
  IF i = "modular"
    THEN IF ld.name \notin {Null, ""} THEN ld.name ELSE TrimOrNull(pg.h1)
    ELSE IF ld.name # Null THEN ld.name ELSE safeText(pg.h1)

\* href.replace('tel:', '') and href.replace(/^tel:/, '').trim(): the tel link
\* of the model is "tel:" followed by the number
TelNumber(href) == IF href = "tel:+14155550100" THEN "+14155550100" ELSE href

\* the phone field: ld.telephone, else the first tel: link (a timeout is caught)
ResolvePhone(i, ld, pg) ==
  IF ld.telephone \notin {Null, ""} THEN ld.telephone
  ELSE IF pg.tel = Null THEN IF i = "modular" THEN Null ELSE ld.telephone
  ELSE TelNumber(pg.tel)

\* the address field: ld.address, else the address element
AddressThrows(i, ld, pg) ==
  i = "modular" /\ ld.address \in {Null, ""} /\ ActionTimesOut(pg.address)
ResolveAddress(i, ld, pg) ==
  IF ld.address \notin {Null, ""} THEN ld.address
  ELSE IF i = "modular" THEN TrimOrNull(pg.address) ELSE safeText(pg.address)

\* allTextContents().map(t => t.trim()).filter(Boolean), as strings
CategoryLinkTexts(pg) == SelectSeq(pg.cats, LAMBDA t : TrimOrNull(t) # Null)

RECURSIVE DedupeStrings(_, _)
DedupeStrings(xs, seen) ==
  IF xs = <<>> THEN <<>>
  ELSE IF Head(xs) \in seen \/ Head(xs) \in {Null, ""}
    THEN DedupeStrings(Tail(xs), seen)
  ELSE <<Head(xs)>> \o DedupeStrings(Tail(xs), seen \cup {Head(xs)})

\* the categories field: the modular handler reads the category links only;
\* the single file reads ld.category when the block has one (line 264 is
\* written ld?.@type, read here as ld?.['@type'])
ResolveCategories(i, ld, pg) ==
  IF i = "single" /\ ld.type # "" /\ ld.category # <<>>
    THEN DedupeStrings(ld.category, {})
    ELSE DedupeStrings(CategoryLinkTexts(pg), {})

\* r.match(/([\d.]+)\s*star/i): the number in front of "star"
RatingOfLabel(label) == IF label = "4.5 star rating" THEN "4.5" ELSE Null

\* the rating field: ld.aggregateRating.ratingValue, else the star-rating label
RatingThrows(i, ld, pg) ==
  i = "modular" /\ ld.ratingValue = Null /\ ActionTimesOut(pg.rating)
ResolveRating(i, ld, pg) ==
  IF ld.ratingValue \notin {Null, ""} THEN ld.ratingValue
  ELSE IF ld.ratingValue = "" /\ i = "modular" THEN Null
  ELSE IF pg.rating = Null THEN Null
  ELSE RatingOfLabel(pg.rating)

\* rcText.replace(/[^\d]/g, ''): the digits of the reviews text
ReviewCountOf(t) == IF t = "128 reviews" THEN "128" ELSE Null
ResolveReviewCount(i, pg) ==
  IF i = "modular" THEN Absent
  ELSE IF safeText(pg.reviews) = Null THEN Null ELSE ReviewCountOf(pg.reviews)

ResolvePriceLevel(i, pg) == IF i = "modular" THEN Absent ELSE safeText(pg.price)

-----------------------------------------------------------------------------
(* Website detection on a detail page *)

Anchor(href, text, visible) == [href |-> href, text |-> text, visible |-> visible]

\* :has-text(t) matches an element whose text contains t, whatever the case
HasText(a, t) ==
  CASE t = "website" -> a.text \in {"Website", "Business website", "Visit website"}
    [] t = "business website" -> a.text = "Business website"
    [] t = "visit website" -> a.text = "Visit website"

\* a[href^="http"]
HrefStartsWithHttp(a) == a.href.kind = "abs" /\ a.href.scheme \in {"http", "https"}

\* a[href*="biz_redir?url="]
HrefHasBizRedirUrl(a) == a.href.path = "/biz_redir" /\ a.href.query.name = "url"

\* href.includes('biz_redir') || href.includes('redirect')
HrefIncludesRedirect(h) == h.path \in {"/biz_redir", "/redirect"}

\* the strings a url= parameter carries in the model, as URL strings
TargetUrl(raw) ==
  CASE raw = "https://acme.com/contact" ->
         U("abs", "https", "acme.com", "", "/contact", NoQuery, "")
    [] raw = "https://acme.com/100%" ->
         U("abs", "https", "acme.com", "", "/100%", NoQuery, "")
    [] raw = "acme.com/contact" ->
         U("rel", "", "", "", "acme.com/contact", NoQuery, "")
    [] OTHER -> EmptyString

\* a "%" that no two hexadecimal digits follow
HasMalformedEscape(raw) == raw = "https://acme.com/100%"

\* a percent-encoded string, as a URL string: nothing the parser accepts
StillEncoded(q) == U("rel", "", "", "", q.raw, [q EXCEPT !.name = ""], "")

\* u.searchParams.get('url') || u.searchParams.get('u'): the value, decoded once
SearchParamGet(h) ==
  IF h.query.name \in {"url", "u"}
    THEN [h.query EXCEPT !.enc = IF @ > 0 THEN @ - 1 ELSE 0]
    ELSE NoQuery

\* decodeURIComponent(real) throws URIError
DecodeThrows(q) == q.enc = 0 /\ HasMalformedEscape(q.raw)

\* decodeURIComponent(real), as a URL string
DecodeURIComponent(q) ==
  IF q.enc > 1 THEN StillEncoded([q EXCEPT !.enc = @ - 1]) ELSE TargetUrl(q.raw)

\* the real destination of a redirect href: NullUrl when there is none to use
\* (no parameter, an empty one, a URIError, all caught or skipped)
RedirectTarget(h) ==
  LET real == SearchParamGet(h)
  IN IF Resolve(h, YelpRoot) = Failure \/ real.raw = "" \/ DecodeThrows(real)
       THEN NullUrl
       ELSE DecodeURIComponent(real)

\* the first anchor, in document order, that satisfies sel: 0 when none does
RECURSIVE FirstMatch(_, _, _)
FirstMatch(links, sel, k) ==
  IF k > Len(links) THEN 0
  ELSE IF sel[k] THEN k
  ELSE FirstMatch(links, sel, k + 1)

\* detail-handler.js lines 78-94: the first anchor of the website selector
\* list, its href taken as it is when the anchor is visible; only when that
\* gave nothing, the first biz_redir anchor, decoded
FindWebsiteModular(links) ==
  LET k == FirstMatch(links, [n \in DOMAIN links |-> HasText(links[n], "website")], 1)
      direct == IF k # 0 /\ links[k].visible THEN links[k].href ELSE NullUrl
      r == FirstMatch(links, [n \in DOMAIN links |-> HrefHasBizRedirUrl(links[n])], 1)
  IN IF ~IsFalsy(direct) THEN direct
     ELSE IF r = 0 THEN NullUrl
     ELSE RedirectTarget(links[r].href)

\* the four selectors of the single file, in its order
SiteSelectorMatches(a, n) ==
  CASE n = 1 -> HrefStartsWithHttp(a) /\ HasText(a, "website")
    [] n = 2 -> HasText(a, "business website")
    [] n = 3 -> HasText(a, "visit website")
    [] n = 4 -> HrefHasBizRedirUrl(a)

NumSiteSelectors == 4

\* what one selector yields: NullUrl to go on with the next selector
SiteSelectorYield(links, n) ==
  LET k == FirstMatch(links, [m \in DOMAIN links |-> SiteSelectorMatches(links[m], n)], 1)
      h == links[k].href
  IN IF k = 0 \/ IsFalsy(h) THEN NullUrl
     ELSE IF HrefIncludesRedirect(h) THEN RedirectTarget(h)
     ELSE IF Resolve(h, YelpRoot) = Failure THEN NullUrl
     ELSE Resolve(h, YelpRoot)

\* single file lines 298-332: the selectors in order, up to the first that
\* yields a website
RECURSIVE FindWebsiteSingleFrom(_, _)
FindWebsiteSingleFrom(links, n) ==
  IF n > NumSiteSelectors THEN NullUrl
  ELSE IF SiteSelectorYield(links, n) # NullUrl THEN SiteSelectorYield(links, n)
  ELSE FindWebsiteSingleFrom(links, n + 1)

FindWebsite(i, links) ==
  IF i = "modular" THEN FindWebsiteModular(links) ELSE FindWebsiteSingleFrom(links, 1)

\* normalizeSiteOrigin: u.origin, the string "null" for a URL without a host,
\* null when the string does not parse
normalizeSiteOrigin(u) ==
  IF u.kind = "abs" THEN U("abs", u.scheme, u.host, u.port, "", NoQuery, "")
  ELSE IF u.kind = "opaque" THEN U("rel", "", "", "", "null", NoQuery, "")
  ELSE NullUrl

\* `${u.protocol}//${u.hostname}` of the single file
ProtocolAndHostname(u) ==
  IF u.kind = "abs" THEN U("abs", u.scheme, u.host, "", "", NoQuery, "")
  ELSE U("opaque", u.scheme, "", "", "//", NoQuery, "")

-----------------------------------------------------------------------------
(* The request handler *)

WorkItem(url, label) == [url |-> url, label |-> label]

\* request.userData?.label ?? 'SEARCH' (modular main), || 'SEARCH' (single file)
LabelOf(i, req) ==
  IF req.label = NoUserData THEN "SEARCH"
  ELSE IF req.label = "" /\ i = "single" THEN "SEARCH"
  ELSE req.label

\* the DETAIL requests of a search page: one per /biz/ anchor, in document order
BizRequests(anchors) ==
  [k \in DOMAIN anchors |-> WorkItem(Resolve(anchors[k], YelpRoot), "DETAIL")]

\* new URL(nextHref, 'https://www.yelp.com') throws where nothing catches it
NextHrefThrows(i, pg) ==
  /\ i = "modular"
  /\ pg.next # <<>>
  /\ ~IsFalsy(pg.next[1].href)
  /\ Resolve(pg.next[1].href, YelpRoot) = Failure

\* the SEARCH request of a search page: the first anchor, in document order,
\* of the selector list 'a.next-link, a[aria-label="Next"], a[rel="next"]',
\* when it has an href
NextRequests(pg) ==
  IF pg.next = <<>> \/ IsFalsy(pg.next[1].href)
       \/ Resolve(pg.next[1].href, YelpRoot) = Failure
    THEN <<>>
    ELSE <<WorkItem(Resolve(pg.next[1].href, YelpRoot), "SEARCH")>>

\* handleSearchPage, and the SEARCH branch of the single file
HandleSearch ==
  /\ pc = "handler"
  /\ LabelOf(impl, request) = "SEARCH"
  /\ pc' = "handler_done"
  /\ IF NextHrefThrows(impl, page)
       THEN /\ outcome' = "failed"
            /\ UNCHANGED <<enqueued, logs>>
       ELSE /\ outcome' = "completed"
            /\ enqueued' = enqueued \o BizRequests(page.biz) \o NextRequests(page)
            /\ logs' = Append(logs, LogEntry("info", "Search page processed", "url"))
  /\ UNCHANGED <<impl, html, bundle, enrichVars, request, page, input, item, dataset>>
  /\ UNCHANGED uniqueVars

\* whether the handler logs a label that is neither SEARCH nor DETAIL: the
\* modular main has an else branch for it, the single file has none
LogsUnknownLabel(i) == i = "modular"

\* a label that is neither SEARCH nor DETAIL
HandleUnknown ==
  /\ pc = "handler"
  /\ LabelOf(impl, request) \notin {"SEARCH", "DETAIL"}
  /\ pc' = "handler_done"
  /\ outcome' = "completed"
  /\ logs' = IF LogsUnknownLabel(impl)
               THEN Append(logs, LogEntry("info", "Unknown label", LabelOf(impl, request)))
               ELSE logs
  /\ UNCHANGED <<impl, html, bundle, enrichVars, request, page, input, item,
                 enqueued, dataset>>
  /\ UNCHANGED uniqueVars

NoItem ==
  [name |-> Null, categories |-> <<>>, rating |-> Null, reviewCount |-> Null,
   priceLevel |-> Null, phone |-> Null, address |-> Null, yelpUrl |-> NullUrl,
   website |-> NullUrl, emails |-> <<>>, phonesFromWebsite |-> <<>>,
   socialLinks |-> <<>>]

\* the fields read off the page, the website as found
ResolveItem(i, pg, req) ==
  LET ld == extractJsonLd(i, pg.scripts)
  IN [name |-> ResolveName(i, ld, pg),
      categories |-> ResolveCategories(i, ld, pg),
      rating |-> ResolveRating(i, ld, pg),
      reviewCount |-> ResolveReviewCount(i, pg),
      priceLevel |-> ResolvePriceLevel(i, pg),
      phone |-> ResolvePhone(i, ld, pg),
      address |-> ResolveAddress(i, ld, pg),
      yelpUrl |-> req.url,
      website |-> FindWebsite(i, pg.links),
      emails |-> <<>>, phonesFromWebsite |-> <<>>, socialLinks |-> <<>>]

\* an unguarded locator action of detail-handler.js times out
ResolveThrows(i, pg) ==
  LET ld == extractJsonLd(i, pg.scripts)
  IN NameThrows(i, ld, pg) \/ AddressThrows(i, ld, pg) \/ RatingThrows(i, ld, pg)

\* the origin the website is canonicalized to: NullUrl when there is none
WebsiteOrigin(i, w) ==
  IF IsFalsy(w) THEN NullUrl
  ELSE IF i = "modular" THEN normalizeSiteOrigin(w)
  ELSE IF Parses(w) THEN ProtocolAndHostname(w)
  ELSE NullUrl

\* the website field when no enrichment call is made
WebsiteWithoutEnrichment(i, w) ==
  IF i = "single" /\ ~IsFalsy(w) /\ ~Parses(w) THEN w ELSE WebsiteOrigin(i, w)

\* the call made whenever there is an origin, whatever the flag
EnrichesWheneverOrigin(i, w, inp) == ~IsFalsy(WebsiteOrigin(i, w))

\* the enricher is called
Enriches(i, w, inp) ==
  inp.fetchContactsFromWebsite /\ ~IsFalsy(WebsiteOrigin(i, w))

WithContacts(it, w, b) ==
  [it EXCEPT !.website = w, !.emails = b.emails, !.phonesFromWebsite = b.phones,
             !.socialLinks = b.socialLinks]

\* Dataset.pushData(item), the log line, the end of the handler
PushItem(it, lg) ==
  /\ dataset' = Append(dataset, it)
  /\ logs' = Append(lg, LogEntry("info", "Saved", "url"))
  /\ pc' = "handler_done"
  /\ outcome' = "completed"
  /\ item' = it

\* handleDetailPage, and the DETAIL branch of the single file, up to the call
\* of fetchWebsiteAndContacts or, without one, to the end
HandleDetail ==
  /\ pc = "handler"
  /\ LabelOf(impl, request) = "DETAIL"
  /\ IF ResolveThrows(impl, page)
       THEN /\ pc' = "handler_done"
            /\ outcome' = "failed"
            /\ UNCHANGED <<caller, baseUrl, contactPaths, item, dataset, logs>>
     ELSE LET it == ResolveItem(impl, page, request)
          IN IF Enriches(impl, it.website, input)
               THEN /\ pc' = "enrich_call"
                    /\ caller' = "detail"
                    /\ baseUrl' = WebsiteOrigin(impl, it.website)
                    /\ contactPaths' = input.contactPagePaths
                    /\ item' = it
                    /\ UNCHANGED <<dataset, logs, outcome>>
               ELSE /\ PushItem(WithContacts(it,
                          WebsiteWithoutEnrichment(impl, it.website), EmptyBundle), logs)
                    /\ UNCHANGED <<caller, baseUrl, contactPaths>>
  /\ UNCHANGED <<impl, html, bundle, urlsToTry, idx, tried, results, ret, trace,
                 request, page, input, enqueued>>
  /\ UNCHANGED uniqueVars

\* the website field after the enrichment call: the single file assigns the
\* origin after the call, inside the try block the call is in
WebsiteAfterEnrichment(i, w, r) ==
  IF i = "single" /\ r.threw THEN w ELSE WebsiteOrigin(i, w)

\* the rest of the detail handler, once fetchWebsiteAndContacts has ended
DetailAfterEnrich ==
  /\ pc \in {"enrich_returned", "enrich_thrown"}
  /\ caller = "detail"
  /\ PushItem(WithContacts(item, WebsiteAfterEnrichment(impl, item.website, ret),
                           IF ret.threw THEN EmptyBundle ELSE ret.value),
              IF ret.threw /\ impl = "modular"
                THEN Append(logs, LogEntry("warning", "Website enrichment failed", "url"))
                ELSE logs)
  /\ UNCHANGED <<impl, html, bundle, enrichVars, request, page, input, enqueued>>
  /\ UNCHANGED uniqueVars

IdleHandler ==
  /\ request = WorkItem(NullUrl, NoUserData)
  /\ page = [kind |-> "none"]
  /\ input = [fetchContactsFromWebsite |-> FALSE, contactPagePaths |-> <<>>]
  /\ item = NoItem
  /\ enqueued = <<>>
  /\ dataset = <<>>
  /\ logs = <<>>
  /\ outcome = "running"

-----------------------------------------------------------------------------
(* The texts the extractor is run on: up to MaxWords of these pieces, joined *)

MaxWords == 3

Words == {
  <<" ">>,
  <<"i","n","f","o","@">>,
  <<"T","e","s","t","@">>,
  <<"e","x","a","m","p","l","e",".","c","o","m">>,
  <<"a","c","m","e",".","c","o","m">>,
  <<"4","1","5"," ">>,
  <<"5","5","5","-","0","1","0","0">>,
  <<"1","2","3","-","4","5","6">>,
  <<"1","0"," ","-"," ">>,
  <<"h","t","t","p","s",":","/","/","t","i","k","t","o","k",".","c","o","m","/","a">>,
  <<"h","t","t","p","s",":","/","/","f","b",".","c","o","m","/","b",")">>
}

RECURSIVE Join(_)
Join(ws) == IF ws = <<>> THEN <<>> ELSE Head(ws) \o Join(Tail(ws))

Texts == UNION {{Join(ws) : ws \in [1..n -> Words]} : n \in 0..MaxWords}

-----------------------------------------------------------------------------
(* The contact extractor run on one text *)

InitExtract ==
  /\ impl \in Impls
  /\ pc = "extract"
  /\ html \in Texts
  /\ bundle = EmptyBundle
  /\ IdleEnrich
  /\ IdleHandler
  /\ IdleUnique

ExtractModular ==
  /\ pc = "extract"
  /\ impl = "modular"
  /\ bundle' = extractContactsFromHtmlModular(html)
  /\ pc' = "extracted"
  /\ UNCHANGED <<impl, html, enrichVars, handlerVars>>
  /\ UNCHANGED uniqueVars

ExtractSingle ==
  /\ pc = "extract"
  /\ impl = "single"
  /\ bundle' = extractContactsFromHtmlSingle(html)
  /\ pc' = "extracted"
  /\ UNCHANGED <<impl, html, enrichVars, handlerVars>>
  /\ UNCHANGED uniqueVars

NextExtract == ExtractModular \/ ExtractSingle

SpecExtract == InitExtract /\ [][NextExtract]_vars

-----------------------------------------------------------------------------
(* fetchWebsiteAndContacts called on its own *)

MaxPaths == 2

AcmeOrigin == U("abs", "https", "acme.com", "", "", NoQuery, "")
AcmeSlash == U("abs", "https", "acme.com", "", "/", NoQuery, "")
\* "acme.com": no scheme, so no absolute URL
AcmeBare == U("rel", "", "", "", "acme.com", NoQuery, "")

BaseUrls == {AcmeOrigin, AcmeSlash, AcmeBare, EmptyString, NullUrl}

\* "/contact", "/contact#form", "/", "http://"
PathRefs == {U("rel", "", "", "", "/contact", NoQuery, ""),
             U("rel", "", "", "", "/contact", NoQuery, "form"),
             U("rel", "", "", "", "/", NoQuery, ""),
             InvalidUrl}

PathLists == UNION {[1..n -> PathRefs] : n \in 0..MaxPaths}

\* the page bodies a fetch can come back with; <<>> is the empty body
EmailBody == <<"i","n","f","o","@","a","c","m","e",".","c","o","m">>
PhoneBody == <<"4","1","5"," ","5","5","5","-","0","1","0","0">>
PlainBody == <<" ">>
\* a page that shows its address twice
TwiceBody == EmailBody \o <<" ">> \o EmailBody
Bodies == {EmailBody, PhoneBody, PlainBody, TwiceBody, <<>>}

InitEnrich ==
  /\ impl \in Impls
  /\ pc = "enrich_call"
  /\ html = <<>>
  /\ bundle = EmptyBundle
  /\ caller = "direct"
  /\ baseUrl \in BaseUrls
  /\ contactPaths \in PathLists
  /\ urlsToTry = <<>>
  /\ idx = 0
  /\ tried = {}
  /\ results = EmptyBundle
  /\ ret = NoRet
  /\ trace = <<>>
  /\ IdleHandler
  /\ IdleUnique

NextEnrich ==
  \/ EnrichCall
  \/ \E body \in Bodies : FetchResolves(body)
  \/ FetchRejects
  \/ SleepDone

SpecEnrich == InitEnrich /\ [][NextEnrich]_vars

-----------------------------------------------------------------------------
(* Properties of fetchWebsiteAndContacts *)

EnrichEnded == pc \in {"enrich_returned", "enrich_thrown"}

FetchEvents == SelectSeq(trace, LAMBDA e : e.ev = "fetch")
OutcomeEvents == SelectSeq(trace, LAMBDA e : e.ev \in {"ok", "empty", "fail"})

\* C1: fetchWebsiteAndContacts never throws: whatever the base URL, the contact
\* paths and the outcomes of the fetches, the call ends by returning a bundle
\* of three lists, and the three lists are empty when no fetch succeeded.
C1_NeverThrows ==
  /\ pc # "enrich_thrown"
  /\ pc = "enrich_returned" =>
       /\ ~ret.threw
       /\ DOMAIN ret.value = {"emails", "phones", "socialLinks"}
       /\ (\A k \in DOMAIN trace : trace[k].ev # "ok") => ret.value = EmptyBundle

\* the stop predicate as the claim states it, per implementation
C3_StopMet ==
  IF impl = "modular" THEN results.emails # <<>>
  ELSE results.emails # <<>> /\ results.phones # <<>>

\* C3: one call issues at most 1 + len(contactPaths) fetches, and no fetch is
\* issued (none is in flight, none is waited for) once the accumulated results
\* satisfy the stop predicate of the implementation.
C3_BoundedFetchesStopEarly ==
  /\ Len(FetchEvents) <= 1 + Len(contactPaths)
  /\ pc \in {"enrich_fetching", "enrich_sleeping"} => ~C3_StopMet

\* a call that stopped early: the predicate is met and a candidate was left
C3_Witness ==
  /\ EnrichEnded
  /\ C3_StopMet
  /\ Len(FetchEvents) >= 2
  /\ NextCandidate(urlsToTry, tried, idx + 1) # 0

\* the contacts of the pages fetched so far, page after page
RECURSIVE C4_Harvest(_)
C4_Harvest(evs) ==
  IF evs = <<>> THEN EmptyBundle
  ELSE Merge(C4_Harvest(SubSeq(evs, 1, Len(evs) - 1)),
             extractContactsFromHtml(impl, evs[Len(evs)].body))

\* C4: the candidates are visited in list order, the origin first and then the
\* contact paths as given; a failed fetch is not fatal: no candidate is passed
\* over, a call that ends without the stop predicate met has attempted every
\* candidate, and the accumulator holds the contacts of every page fetched,
\* before or after a failure.
C4_OrderedBestEffort ==
  /\ urlsToTry # <<>> =>
       /\ Len(urlsToTry) = 1 + Len(contactPaths)
       /\ StripFragment(urlsToTry[1]) \in {baseUrl, StripTrailingSlashes(baseUrl)}
       /\ \A k \in DOMAIN contactPaths :
            urlsToTry[k + 1] = Resolve(contactPaths[k], urlsToTry[1])
  /\ FetchEvents # <<>> => FetchEvents[1].i = 1
  /\ \A p \in DOMAIN FetchEvents :
       /\ p > 1 => FetchEvents[p - 1].i < FetchEvents[p].i
       /\ \A i \in 1..(FetchEvents[p].i - 1) :
            \E q \in 1..(p - 1) : FetchEvents[q].url = StripFragment(urlsToTry[i])
  /\ (EnrichEnded /\ urlsToTry # <<>> /\ ~C3_StopMet) =>
       \A i \in DOMAIN urlsToTry :
         \E q \in DOMAIN FetchEvents : FetchEvents[q].url = StripFragment(urlsToTry[i])
  /\ results = C4_Harvest(SelectSeq(trace, LAMBDA e : e.ev = "ok"))

\* a page with contacts, then a failed fetch, then another page with contacts,
\* all of them kept
C4_Witness ==
  /\ EnrichEnded
  /\ Len(OutcomeEvents) = 3
  /\ OutcomeEvents[1].ev = "ok" /\ OutcomeEvents[1].body = PhoneBody
  /\ OutcomeEvents[2].ev = "fail"
  /\ OutcomeEvents[3].ev = "ok" /\ OutcomeEvents[3].body = EmailBody
  /\ results.phones # <<>> /\ results.emails # <<>>

-----------------------------------------------------------------------------
(* Properties of extractContactsFromHtml *)

\* C7: no email returned by extractContactsFromHtml contains "example" or
\* "test", compared case-insensitively.
C7_NoPlaceholderEmail ==
  pc = "extracted" =>
    \A k \in DOMAIN bundle.emails :
      /\ ~Includes(ToLower(bundle.emails[k]), <<"e","x","a","m","p","l","e">>)
      /\ ~Includes(ToLower(bundle.emails[k]), <<"t","e","s","t">>)

\* C8: every phone returned by extractContactsFromHtml has at least 7 digits
\* once its non-digit characters are removed.
C8_PhoneHasSevenDigits ==
  pc = "extracted" =>
    \A k \in DOMAIN bundle.phones :
      Len(SelectSeq(bundle.phones[k], LAMBDA c : c \in Digits)) >= 7

-----------------------------------------------------------------------------
(* The request handler run on one work item *)

MaxAnchors == 3
MaxNext == 2
MaxLinks == 2

Page(biz, next, scripts, h1, tel, address, cats, rating, reviews, price, links) ==
  [biz |-> biz, next |-> next, scripts |-> scripts, h1 |-> h1, tel |-> tel,
   address |-> address, cats |-> cats, rating |-> rating, reviews |-> reviews,
   price |-> price, links |-> links]

\* "/biz/a", "/biz/b", "/biz/c"
BizHrefs == {U("rel", "", "", "", p, NoQuery, "") : p \in {"/biz/a", "/biz/b", "/biz/c"}}

SearchHref(start) ==
  U("rel", "", "", "", "/search", [name |-> "start", enc |-> 0, raw |-> start], "")

\* the anchors the next-page selector list matches, each with the selector
\* that matches it
NextAnchor(sel, href) == [sel |-> sel, href |-> href]
NextAnchors == {NextAnchor("rel-next", SearchHref("10")),
                NextAnchor("aria-label-next", SearchHref("20")),
                NextAnchor("next-link", NullUrl),
                NextAnchor("next-link", InvalidUrl)}

SearchPages ==
  {Page(biz, next, <<>>, Null, Null, Null, <<>>, Null, Null, Null, <<>>) :
     biz \in UNION {[1..n -> BizHrefs] : n \in 0..MaxAnchors},
     next \in UNION {[1..n -> NextAnchors] : n \in 0..MaxNext}}

FullBlock(type) ==
  Block(type, "Acme Plumbing", "+1-555-0100", "1 Main St, Springfield",
        <<"Plumbers", "Plumbers", "Heating">>, "4.8")
NameOnlyBlock == Block("LocalBusiness", "Acme Plumbing", Null, Null, <<>>, Null)

ScriptLists ==
  {<<>>,
   <<Script(FALSE, <<>>)>>,
   <<Script(TRUE, <<FullBlock("LocalBusiness")>>)>>,
   <<Script(TRUE, <<FullBlock("Person"), FullBlock("ProfessionalService")>>)>>,
   <<Script(FALSE, <<>>), Script(TRUE, <<NameOnlyBlock>>)>>}

\* detail pages that differ in their structured data and their elements
FieldPages ==
  {Page(<<>>, <<>>, scripts, h1, IF rest THEN "tel:+14155550100" ELSE Null,
        address, IF rest THEN <<"Plumbers", " ", "HVAC", "Plumbers">> ELSE <<>>,
        rating, IF rest THEN "128 reviews" ELSE Null, IF rest THEN "$$" ELSE Null,
        <<>>) :
     scripts \in ScriptLists, h1 \in {Null, "Acme"}, address \in {Null, "1 Main St"},
     rating \in {Null, "4.5 star rating"}, rest \in BOOLEAN}

RedirQuery(name, raw) == [name |-> name, enc |-> 1, raw |-> raw]
\* "https://acme.com/home?ref=yelp#top"
DirectAcme ==
  U("abs", "https", "acme.com", "", "/home", [name |-> "ref", enc |-> 0, raw |-> "yelp"], "top")
\* "/biz_redir?url=<encoded>" and "https://www.yelp.com/biz_redir?url=<encoded>"
RelWrapper(raw) == U("rel", "", "", "", "/biz_redir", RedirQuery("url", raw), "")
AbsWrapper(raw) == U("abs", "https", "www.yelp.com", "", "/biz_redir", RedirQuery("url", raw), "")
\* "mailto:info@acme.com"
Mailto == U("opaque", "mailto", "", "", "info@acme.com", NoQuery, "")

WebsiteAnchors ==
  {Anchor(DirectAcme, "Business website", TRUE),
   Anchor(DirectAcme, "Visit website", FALSE),
   Anchor(RelWrapper("https://acme.com/contact"), "Business website", TRUE),
   Anchor(AbsWrapper("https://acme.com/contact"), "Website", TRUE),
   Anchor(RelWrapper("acme.com/contact"), "Menu", TRUE),
   Anchor(RelWrapper("https://acme.com/100%"), "Menu", FALSE),
   Anchor(RelWrapper(""), "Menu", TRUE),
   Anchor(NullUrl, "Visit website", TRUE),
   Anchor(Mailto, "Website", TRUE)}

\* detail pages that differ in their website links
LinkPages ==
  {Page(<<>>, <<>>, <<>>, "Acme", Null, "1 Main St", <<>>, "4.5 star rating", Null,
        Null, links) :
     links \in UNION {[1..n -> WebsiteAnchors] : n \in 0..MaxLinks}}

DetailPages == FieldPages \cup LinkPages

DefaultInput ==
  [fetchContactsFromWebsite |-> TRUE,
   contactPagePaths |-> <<U("rel", "", "", "", "/contact", NoQuery, "")>>]

Inputs ==
  [fetchContactsFromWebsite : BOOLEAN,
   contactPagePaths : {<<U("rel", "", "", "", "/contact", NoQuery, "")>>, <<InvalidUrl>>}]

BizUrl == U("abs", "https", "www.yelp.com", "", "/biz/acme", NoQuery, "")
SearchUrl == U("abs", "https", "www.yelp.com", "", "/search", NoQuery, "")

InitHandler ==
  /\ impl \in Impls
  /\ pc = "handler"
  /\ html = <<>>
  /\ bundle = EmptyBundle
  /\ IdleEnrich
  /\ \/ /\ request = WorkItem(SearchUrl, "SEARCH")
        /\ page \in SearchPages
        /\ input = DefaultInput
     \/ /\ request \in {WorkItem(SearchUrl, l) : l \in {NoUserData, "", "REVIEWS"}}
        /\ page \in {pg \in SearchPages : Len(pg.biz) = 1 /\ Len(pg.next) = 1}
        /\ input = DefaultInput
     \/ /\ request = WorkItem(BizUrl, "DETAIL")
        /\ page \in DetailPages
        /\ input \in Inputs
  /\ item = NoItem
  /\ enqueued = <<>>
  /\ dataset = <<>>
  /\ logs = <<>>
  /\ outcome = "running"
  /\ IdleUnique

NextHandler ==
  \/ HandleSearch
  \/ HandleUnknown
  \/ HandleDetail
  \/ DetailAfterEnrich
  \/ EnrichCall
  \/ \E body \in Bodies : FetchResolves(body)
  \/ FetchRejects
  \/ SleepDone

SpecHandler == InitHandler /\ [][NextHandler]_vars

-----------------------------------------------------------------------------
(* Properties of the request handler *)

HandlerEnded == pc = "handler_done"

\* a detail page on which no structured-data block and none of the selectors
\* match
ZeroMatchPage(pg) ==
  /\ pg.scripts = <<>>
  /\ pg.h1 = Null /\ pg.tel = Null /\ pg.address = Null /\ pg.rating = Null
  /\ pg.cats = <<>> /\ pg.links = <<>>

\* C2: detail-page resolution is total: on a DETAIL page where no
\* structured-data block and no selector matches, the handler does not fail
\* and pushes exactly one record, with name, phone, address, rating and
\* website null and categories, emails, phonesFromWebsite and socialLinks
\* empty.
C2_DetailResolutionTotal ==
  (HandlerEnded /\ request.label = "DETAIL" /\ ZeroMatchPage(page)) =>
    /\ outcome = "completed"
    /\ Len(dataset) = 1
    /\ dataset[1].name = Null /\ dataset[1].phone = Null
    /\ dataset[1].address = Null /\ dataset[1].rating = Null
    /\ dataset[1].website = NullUrl
    /\ dataset[1].categories = <<>> /\ dataset[1].emails = <<>>
    /\ dataset[1].phonesFromWebsite = <<>> /\ dataset[1].socialLinks = <<>>

\* a visible link whose href is a wrapper around "https://acme.com/contact"
AcmeWrapper(a) ==
  /\ a.visible
  /\ a.href.path = "/biz_redir"
  /\ a.href.query = RedirQuery("url", "https://acme.com/contact")

\* C5: when the website link of a detail page is an outbound-redirect wrapper
\* (biz_redir?url=<encoded>, relative or absolute), the website of the record
\* comes from the decoded inner URL, never from the wrapper or its host,
\* whichever selector matched the link.
C5_RedirectDecoded ==
  (HandlerEnded /\ request.label = "DETAIL" /\ outcome = "completed"
     /\ page.links # <<>> /\ \A k \in DOMAIN page.links : AcmeWrapper(page.links[k])) =>
    /\ Len(dataset) = 1
    /\ dataset[1].website.kind = "abs"
    /\ dataset[1].website.host = "acme.com"

DetailItems(items) == SelectSeq(items, LAMBDA w : w.label = "DETAIL")
SearchItems(items) == SelectSeq(items, LAMBDA w : w.label = "SEARCH")
NoDuplicates(xs) == \A j, k \in DOMAIN xs : j # k => xs[j] # xs[k]

\* C6: a search page yields one DETAIL work item per distinct resolved URL
\* among its /biz/ anchors, no two with the same URL; three distinct /biz/
\* anchors and one rel=next anchor yield 4 items, 3 DETAIL and 1 SEARCH.
C6_OneDetailPerUrl ==
  (HandlerEnded /\ LabelOf(impl, request) = "SEARCH" /\ outcome = "completed") =>
    /\ NoDuplicates(DetailItems(enqueued))
    /\ {w.url : w \in Range(DetailItems(enqueued))}
         = {Resolve(page.biz[k], YelpRoot) : k \in DOMAIN page.biz}
    /\ (Len(page.biz) = 3 /\ NoDuplicates(page.biz)
          /\ page.next = <<NextAnchor("rel-next", SearchHref("10"))>>) =>
         /\ Len(enqueued) = 4
         /\ Len(DetailItems(enqueued)) = 3
         /\ Len(SearchItems(enqueued)) = 1

\* C9: a work item whose label is neither SEARCH nor DETAIL is logged and
\* dropped: the handler completes, writes a log entry naming the label,
\* enqueues nothing and pushes nothing; a work item with no label is handled
\* as SEARCH.
C9_UnknownLabelLoggedDropped ==
  HandlerEnded =>
    /\ request.label \notin {"SEARCH", "DETAIL", NoUserData} =>
         /\ outcome = "completed"
         /\ \E k \in DOMAIN logs : logs[k].arg = request.label
         /\ enqueued = <<>>
         /\ dataset = <<>>
    /\ (request.label = NoUserData /\ outcome = "completed") =>
         enqueued = BizRequests(page.biz) \o NextRequests(page)

\* scheme + host, with no path, query or fragment
OriginOnly(u) ==
  /\ u.kind = "abs"
  /\ u.host # ""
  /\ u.path = "" /\ u.query = NoQuery /\ u.frag = ""

\* C10: a non-null website of an emitted record is an origin only, for every
\* website href found on the detail page, including hrefs and decoded
\* redirect targets that are not parseable absolute URLs.
C10_WebsiteOriginOnly ==
  \A k \in DOMAIN dataset :
    dataset[k].website # NullUrl => OriginOnly(dataset[k].website)

\* the fields of a record that the enricher fills are empty
NoContacts(it) ==
  it.emails = <<>> /\ it.phonesFromWebsite = <<>> /\ it.socialLinks = <<>>

-----------------------------------------------------------------------------
(* Properties of the contact bundles *)

\* no duplicate element and no empty-string element in any of the three lists
CleanBundle(b) ==
  \A f \in {"emails", "phones", "socialLinks"} :
    /\ NoDuplicates(b[f])
    /\ \A k \in DOMAIN b[f] : b[f][k] # <<>>

\* C12: every bundle returned by extractContactsFromHtml, and every bundle
\* returned by fetchWebsiteAndContacts after merging its candidate pages, has
\* no duplicate element and no empty-string element in emails, phones and
\* socialLinks.
C12_BundlesClean ==
  /\ CleanBundle(bundle)
  /\ (pc = "enrich_returned" => CleanBundle(ret.value))

\* the same address found on two candidate pages, returned once
C12_Witness ==
  /\ pc = "enrich_returned"
  /\ Len(trace) > 3
  /\ Len(results.emails) > 1
  /\ ~NoDuplicates(results.emails)
  /\ ret.value.emails = <<EmailBody>>

-----------------------------------------------------------------------------
(* unique applied to a list, and to its own result *)

MaxList == 3

\* "a", "b", "", null, undefined
ListEntries == {<<"a">>, <<"b">>, <<>>, JsNull, JsUndefined}

Lists == UNION {[1..n -> ListEntries] : n \in 0..MaxList}

InitUnique ==
  /\ impl \in Impls
  /\ pc = "unique"
  /\ arr \in Lists
  /\ once = <<>>
  /\ twice = <<>>
  /\ html = <<>>
  /\ bundle = EmptyBundle
  /\ IdleEnrich
  /\ IdleHandler

UniqueOnce ==
  /\ pc = "unique"
  /\ once' = unique(arr)
  /\ pc' = "unique_once"
  /\ UNCHANGED <<impl, html, bundle, enrichVars, handlerVars, arr, twice>>

UniqueTwice ==
  /\ pc = "unique_once"
  /\ twice' = unique(once)
  /\ pc' = "unique_twice"
  /\ UNCHANGED <<impl, html, bundle, enrichVars, handlerVars, arr, once>>

NextUnique == UniqueOnce \/ UniqueTwice

SpecUnique == InitUnique /\ [][NextUnique]_vars

\* the positions of the first occurrences of the truthy entries
KeptPositions(xs) ==
  {k \in DOMAIN xs : xs[k] \notin Falsy /\ \A j \in 1..(k - 1) : xs[j] # xs[k]}

\* the n-th smallest of a set of positions
NthPosition(ps, n) == CHOOSE k \in ps : Cardinality({j \in ps : j <= k}) = n

\* C13: unique is idempotent, unique(unique(xs)) = unique(xs), for every
\* list, with duplicates, empty strings, null and undefined entries, and
\* unique(xs) keeps the first occurrence of each truthy element in its
\* original relative order.
C13_UniqueIdempotent ==
  /\ pc \in {"unique_once", "unique_twice"} =>
       /\ Len(once) = Cardinality(KeptPositions(arr))
       /\ \A n \in DOMAIN once : once[n] = arr[NthPosition(KeptPositions(arr), n)]
  /\ pc = "unique_twice" => twice = once

\* a list with a falsy entry and a truthy entry that occurs twice,
\* deduplicated twice
C13_Witness ==
  /\ pc = "unique_twice"
  /\ \E k \in DOMAIN arr : arr[k] \in Falsy
  /\ \E j, k \in DOMAIN arr : j < k /\ arr[j] = arr[k] /\ arr[j] \notin Falsy
  /\ once # <<>>
  /\ twice = once

-----------------------------------------------------------------------------
(* Properties of the next-page control *)

\* the anchors of a page that one selector matches, in document order
MatchedBy(sel, pg) == SelectSeq(pg.next, LAMBDA a : a.sel = sel)

\* the control chosen by priority: rel=next, else the accessible label Next,
\* else the next-link class
ControlByPriority(pg) ==
  IF MatchedBy("rel-next", pg) # <<>> THEN <<MatchedBy("rel-next", pg)[1]>>
  ELSE IF MatchedBy("aria-label-next", pg) # <<>>
    THEN <<MatchedBy("aria-label-next", pg)[1]>>
  ELSE IF MatchedBy("next-link", pg) # <<>> THEN <<MatchedBy("next-link", pg)[1]>>
  ELSE <<>>

\* C14: the next-page control is chosen by selector priority, not document
\* position: the SEARCH work item uses the href of the rel=next anchor, else
\* of the anchor labelled Next, else of the next-link anchor; at most one
\* SEARCH item is emitted per search page, and none when the chosen control
\* has no href.
C14_NextBySelectorPriority ==
  (HandlerEnded /\ LabelOf(impl, request) = "SEARCH" /\ outcome = "completed") =>
    LET chosen == ControlByPriority(page)
    IN /\ Len(SearchItems(enqueued)) <= 1
       /\ IF chosen = <<>> \/ IsFalsy(chosen[1].href)
               \/ Resolve(chosen[1].href, YelpRoot) = Failure
            THEN SearchItems(enqueued) = <<>>
            ELSE SearchItems(enqueued)
                   = <<WorkItem(Resolve(chosen[1].href, YelpRoot), "SEARCH")>>

-----------------------------------------------------------------------------
(* Properties of the categories field *)

\* C15: the categories of a record follow the fallback chain: when the
\* matched metadata block has a category field, a single value or a list,
\* the categories are exactly those values, deduplicated in insertion order;
\* the category links are used only when the metadata has no category field.
C15_CategoriesFallbackChain ==
  (HandlerEnded /\ request.label = "DETAIL" /\ outcome = "completed") =>
    LET ld == extractJsonLd(impl, page.scripts)
    IN /\ Len(dataset) = 1
       /\ dataset[1].categories =
            IF ld.category # <<>> THEN DedupeStrings(ld.category, {})
            ELSE DedupeStrings(CategoryLinkTexts(page), {})

-----------------------------------------------------------------------------
(* Properties of the polite delay *)

\* C16: within one call of fetchWebsiteAndContacts a polite delay occurs
\* between any two successive fetch attempts, whatever the outcome of the
\* earlier one: contacts found, an empty body, or a failure.
C16_DelayBetweenFetches ==
  \A a, b \in DOMAIN trace :
    (a < b /\ trace[a].ev = "fetch" /\ trace[b].ev = "fetch") =>
      \E c \in (a + 1)..(b - 1) : trace[c].ev = "sleep"

=============================================================================
